---- MODULE Spec2Model ----
(***************************************************************************)
(* Scan-lifecycle orchestration and report assembly of sonar_api.py.       *)
(*                                                                         *)
(* Python values are modelled as follows.                                  *)
(*   None                 the string NoneV                                 *)
(*   a key that is absent the string Absent (d.get(k) turns it into None)  *)
(*   dict                 a record; {} is EmptyDict                        *)
(*   OrderedDict / JSON   a sequence of <<key, value>> pairs, in insertion *)
(*   response body        order                                            *)
(*   int / float          [t |-> "int", v |-> n] / [t |-> "float",         *)
(*                        v |-> tenths]                                    *)
(*   a path or file name  [present, dir, stem, ext]: dir is the sequence   *)
(*                        of directories before the last "/", stem and ext *)
(*                        the two halves os.path.splitext gives            *)
(*   a URL                [present, dirs, stem, dotgit]: the segments      *)
(*                        before the last "/", and the last segment with   *)
(*                        or without a trailing ".git"                     *)
(***************************************************************************)
EXTENDS Integers, Sequences, FiniteSets, TLC

(* ------------------------------ bounds --------------------------------- *)
\* request threads of the server
NumProcs == 2
\* requests a thread serves, one after the other
MaxRequests == 1
\* entries of the "issues" list of an issues answer
MaxIssues == 1
\* entries of the "conditions" list of a quality-gate answer
MaxConditions == 1

Procs == 1..NumProcs

(* --------------------------- program constants ------------------------- *)
max_wait == 30
poll_interval == 2

NoneV == "None"
Absent == "<absent>"
EmptyDict == << >>

Falsy(v) == v \in {NoneV, Absent, ""}

\* dict.get(key) of a field that may be absent
GetField(v) == IF v = Absent THEN NoneV ELSE v

\* d.get(k) of a record-modelled dict
DictGet(d, k) == IF k \in DOMAIN d THEN d[k] ELSE NoneV

\* the keys of an ordered document, in order
Keys(doc) == [i \in 1..Len(doc) |-> doc[i][1]]

\* doc[k] of an ordered document that has the key k
Value(doc, k) == doc[CHOOSE i \in 1..Len(doc) : doc[i][1] = k][2]

(* ------------------------------ file names ----------------------------- *)
NoFile == [present |-> FALSE, dir |-> << >>, stem |-> "", ext |-> ""]
File(dir, stem, ext) == [present |-> TRUE, dir |-> dir, stem |-> stem, ext |-> ext]

\* os.path.basename
Basename(f) == f.stem \o f.ext

\* the file name as the string the caller sent
RECURSIVE JoinDirs(_)
JoinDirs(dirs) == IF dirs = << >> THEN "" ELSE Head(dirs) \o "/" \o JoinDirs(Tail(dirs))
FileStr(f) == JoinDirs(f.dir) \o f.stem \o f.ext

NoUrl == [present |-> FALSE, dirs |-> << >>, stem |-> "", dotgit |-> FALSE]
Url(dirs, stem, dotgit) == [present |-> TRUE, dirs |-> dirs, stem |-> stem, dotgit |-> dotgit]

(* ---------------------------- error_response --------------------------- *)
error_response(message, code, kwargs) ==
    [status |-> code, body |-> << <<"error", message>> >> \o kwargs]

(* ---------------------------- get_project_key -------------------------- *)
\* re.search(r'/([^/]+?)(\.git)?$', git_url): the last path segment without
\* a trailing ".git"; no match when the URL has no "/" or ends with "/"
GitUrlKey(u) ==
    IF u.dirs = << >> THEN "default_git_project"
    ELSE IF u.stem = "" /\ ~u.dotgit THEN "default_git_project"
    ELSE IF u.stem = "" THEN ".git"
    ELSE u.stem

get_project_key(data, filename) ==
    IF data.project_key # Absent THEN data.project_key
    ELSE IF data.git_url.present THEN GitUrlKey(data.git_url)
    ELSE IF filename.present /\ FileStr(filename) # "" THEN filename.stem
    ELSE NoneV

\* the filename argument of both call sites: the parameter's default, None
KeyCallFilename(data) == NoFile

(* ------------------------------- sonar_api ----------------------------- *)
\* What one HTTP GET to the backend can end as: a 2xx answer carrying JSON,
\* or one of the failures requests.get / raise_for_status raise.
OkOutcome(json) == [kind |-> "ok", json |-> json]
FailOutcome(kind) == [kind |-> kind, json |-> EmptyDict]
FailKinds == {"ConnectionError", "Timeout", "HTTPError"}

\* variant: the failure is swallowed into an empty dict
sonar_api_swallow(outcome) ==
    IF outcome.kind = "ok" THEN outcome.json ELSE EmptyDict

sonar_api(outcome) ==
    IF outcome.kind = "ok" THEN outcome.json ELSE [error |-> outcome.kind]

\* isinstance(x, dict) and not x.get("error")
IsOk(x) == Falsy(DictGet(x, "error"))

\* variant: no lookup ever finds the project
project_exists_never(outcome) == FALSE

\* variant: a failed lookup counts as an existing project
project_exists_fail_closed(outcome) ==
    outcome.kind # "ok" \/ "component" \in DOMAIN sonar_api(outcome)

\* variant: the key looked for is misspelt
project_exists_typo(outcome) == "components" \in DOMAIN sonar_api(outcome)

project_exists(outcome) == "component" \in DOMAIN sonar_api(outcome)

(* ---------------------------- get_sonar_report ------------------------- *)
MetricKeys == <<"bugs", "vulnerabilities", "code_smells", "duplicated_lines_density",
                "coverage", "ncloc", "sqale_index">>

\* Python's float() on the texts a measure value is drawn from, in tenths
FloatOf == [s \in {"3", "2.5"} |-> IF s = "3" THEN 30 ELSE 25]

\* float(val or 0) raises ValueError on any other text
CanFloat(val) == Falsy(val) \/ val \in DOMAIN FloatOf
ToFloat(val) == IF Falsy(val) THEN 0 ELSE FloatOf[val]

safe_int(val) == [t |-> "int", v |-> ToFloat(val) \div 10]
safe_float(val) == [t |-> "float", v |-> ToFloat(val)]

\* metrics.get("component", {}).get("measures", [])
MeasureList(metrics) ==
    IF "component" \in DOMAIN metrics /\ "measures" \in DOMAIN metrics.component
    THEN metrics.component.measures ELSE << >>

\* vals.get(m) of vals = {x["metric"]: x.get("value") for x in measures}
ValsGet(measures, m) ==
    LET hits == {i \in 1..Len(measures) : measures[i].metric = m}
    IN  IF hits = {} THEN NoneV
        ELSE GetField(measures[CHOOSE i \in hits : \A j \in hits : j <= i].value)

MetricsRaises(metrics) ==
    /\ IsOk(metrics)
    /\ \E i \in 1..Len(MetricKeys) : ~CanFloat(ValsGet(MeasureList(metrics), MetricKeys[i]))

MetricsSummary(metrics) ==
    IF IsOk(metrics)
    THEN LET vals(m) == ValsGet(MeasureList(metrics), m)
         IN  [bugs |-> safe_int(vals("bugs")),
              vulnerabilities |-> safe_int(vals("vulnerabilities")),
              code_smells |-> safe_int(vals("code_smells")),
              duplicated_lines_density |-> safe_float(vals("duplicated_lines_density")),
              coverage |-> safe_float(vals("coverage")),
              lines_of_code |-> safe_int(vals("ncloc")),
              sqale_index |-> safe_int(vals("sqale_index"))]
    ELSE EmptyDict

IssuesList(issues) ==
    IF IsOk(issues)
    THEN LET raw == DictGet(issues, "issues")
             lst == IF "issues" \in DOMAIN issues THEN raw ELSE << >>
         IN  [n \in 1..Len(lst) |->
                 [key |-> GetField(lst[n].key),
                  type |-> GetField(lst[n].type),
                  severity |-> GetField(lst[n].severity),
                  message |-> GetField(lst[n].message),
                  component |-> GetField(lst[n].component),
                  line |-> GetField(lst[n].line),
                  effort_minutes |-> GetField(lst[n].effort)]]
    ELSE << >>

\* qgs = quality_gate.get("projectStatus", {}) on success, {} otherwise
Qgs(quality_gate) ==
    IF IsOk(quality_gate) /\ "projectStatus" \in DOMAIN quality_gate
    THEN quality_gate.projectStatus ELSE EmptyDict

QualityGateStatus(quality_gate) ==
    IF IsOk(quality_gate)
    THEN LET qgs == Qgs(quality_gate)
             conds == IF "conditions" \in DOMAIN qgs THEN qgs.conditions ELSE << >>
         IN  [status |-> GetField(DictGet(qgs, "status")),
              conditions |-> [n \in 1..Len(conds) |->
                  [metric |-> GetField(conds[n].metricKey),
                   actual_value |-> GetField(conds[n].actualValue),
                   threshold |-> IF ~Falsy(conds[n].errorThreshold)
                                 THEN conds[n].errorThreshold
                                 ELSE GetField(conds[n].warningThreshold),
                   status |-> GetField(conds[n].status)]]]
    ELSE EmptyDict

Project(project_info, analyses, quality_gate) ==
    IF IsOk(project_info)
    THEN LET comp == IF "component" \in DOMAIN project_info
                     THEN project_info.component ELSE EmptyDict
             ana_list == IF IsOk(analyses) /\ "analyses" \in DOMAIN analyses
                         THEN analyses.analyses ELSE << >>
             ana == IF ana_list # << >> THEN ana_list[1] ELSE EmptyDict
         IN  [name |-> DictGet(comp, "name"),
              key |-> DictGet(comp, "key"),
              analysis_id |-> DictGet(ana, "key"),
              status |-> GetField(DictGet(Qgs(quality_gate), "status")),
              analysis_date |-> DictGet(ana, "date")]
    ELSE project_info

ReportKeys == <<"project", "metrics_summary", "issues", "quality_gate_status">>

\* variant: an empty metrics_summary is left out of the document
ReportDocument_drop_empty(project, metrics_summary, issues_list, quality_gate_status) ==
    IF metrics_summary = EmptyDict
    THEN << <<"project", project>>, <<"issues", issues_list>>,
            <<"quality_gate_status", quality_gate_status>> >>
    ELSE << <<"project", project>>, <<"metrics_summary", metrics_summary>>,
            <<"issues", issues_list>>, <<"quality_gate_status", quality_gate_status>> >>

\* the OrderedDict of lines 175-180
ReportDocument(project, metrics_summary, issues_list, quality_gate_status) ==
    << <<"project", project>>,
       <<"metrics_summary", metrics_summary>>,
       <<"issues", issues_list>>,
       <<"quality_gate_status", quality_gate_status>> >>

\* answers: the outcomes of the five GETs, in the order they are issued.
\* The result is the document, or the ValueError a measure value raised.
get_sonar_report(answers) ==
    LET project_info == sonar_api(answers.project_info)
        analyses == sonar_api(answers.analyses)
        metrics == sonar_api(answers.metrics)
        issues == sonar_api(answers.issues)
        quality_gate == sonar_api(answers.quality_gate)
    IN  IF MetricsRaises(metrics)
        THEN [raised |-> TRUE, doc |-> << >>]
        ELSE [raised |-> FALSE,
              doc |-> ReportDocument(Project(project_info, analyses, quality_gate),
                                     MetricsSummary(metrics),
                                     IssuesList(issues),
                                     QualityGateStatus(quality_gate))]

\* the sub-queries of an assembly that failed
SubQueries == {"project_info", "analyses", "metrics", "issues", "quality_gate"}
FailedOf(answers) == {q \in SubQueries : answers[q].kind # "ok"}

(* ------------------------- configuration and inputs -------------------- *)
SONAR_HOST == "http://localhost:9000"
\* os.environ.get("SONAR_TOKEN"): unset, or the reference credential
TokenConfigs == {NoneV, "tok"}

UPLOAD_BASE_DIR == "/tmp/sonar_file_uploads"

\* the X-Sonar-Token header: absent, empty, the reference credential, another
Tokens == {Absent, "", "tok", "bad"}

RepoUrl == Url(<<"https:", "", "git.example">>, "r", TRUE)
FileA == File(<< >>, "a", ".py")
FileSub == File(<<"sub">>, "a", ".py")
FileEmpty == File(<< >>, "", "")
FileZip == File(<< >>, "z", ".zip")

NoData == [project_key |-> Absent, project_name |-> Absent, git_url |-> NoUrl,
           code |-> Absent, filename |-> NoFile]
NoForm == [project_key |-> Absent, project_name |-> Absent]

\* JSON objects of a /scan body
JsonDicts ==
    {d \in [project_key : {Absent, "k"}, project_name : {Absent, "Demo"},
            git_url : {NoUrl, RepoUrl}, code : {Absent, "print(1)"},
            filename : {NoFile, FileA, FileSub}] :
        /\ d.code = Absent => d.filename = NoFile
        /\ d.git_url.present => d.filename = NoFile
        /\ d.git_url.present /\ d.code # Absent => d.project_key = Absent}

\* the file parts of a multipart /scan body, by file name
FileLists == {<<FileZip>>, <<FileEmpty>>, <<FileZip, FileZip>>}

Forms == [project_key : {Absent, "k"}, project_name : {Absent, "Demo"}]

Request(endpoint, token, kind, data, files, form, key) ==
    [endpoint |-> endpoint, token |-> token, kind |-> kind, data |-> data,
     files |-> files, form |-> form, key |-> key]

NoRequest == Request("none", Absent, "none", NoData, << >>, NoForm, NoneV)

\* kind "json": a JSON object; "json_list": JSON that is no object;
\* "multipart": a form with a "file" field
ScanRequests ==
    {Request("scan", t, "json", d, << >>, NoForm, NoneV) : t \in Tokens, d \in JsonDicts}
    \cup {Request("scan", t, "json_list", NoData, << >>, NoForm, NoneV) : t \in Tokens}
    \cup {Request("scan", t, "multipart", NoData, fl, fm, NoneV) :
             t \in Tokens, fl \in FileLists, fm \in Forms}

ReportRequests ==
    {Request("report", t, "none", NoData, << >>, NoForm, "k") : t \in Tokens}

TestRequests ==
    {Request("test", t, "none", NoData, << >>, NoForm, NoneV) : t \in {Absent, "tok"}}

\* subprocess.run results: exit code and the two captured streams; stdout
\* is the sequence of phrases it contains
Result(returncode, stdout, stderr) ==
    [returncode |-> returncode, stdout |-> stdout, stderr |-> stderr]
NoResult == Result(0, << >>, "")

CloneResults ==
    {Result(0, << >>, ""), Result(128, << >>, "fatal: unable to access"),
     Result(1, <<"clone output">>, "")}

ScannerResults ==
    {Result(0, <<"EXECUTION SUCCESS">>, ""),
     Result(1, <<"ANALYSIS SUCCESSFUL">>, "WARN: deprecated"),
     Result(0, << >>, ""),
     Result(1, <<"EXECUTION FAILURE">>, "ERROR: failed")}

\* phrase in stdout
Contains(stdout, phrase) == \E i \in 1..Len(stdout) : stdout[i] = phrase

\* the captured text of a stream
Text(stdout) == IF stdout = << >> THEN "" ELSE stdout[1]

(* ----------------------------- backend answers -------------------------- *)
SeqsUpTo(S, n) == UNION {[1..m -> S] : m \in 0..n}

Fails(kinds) == {FailOutcome(k) : k \in kinds}

ComponentOk(key) == OkOutcome([component |-> [name |-> "Demo", key |-> key]])
AnalysesOk(list) == OkOutcome([analyses |-> list])
MetricsOk(measures) == OkOutcome([component |-> [measures |-> measures]])
IssuesOk(list) == OkOutcome([issues |-> list])
QualityGateOk(status, conds) ==
    OkOutcome([projectStatus |-> [status |-> status, conditions |-> conds]])

Analysis1 == [key |-> "A1", date |-> "2024-01-01T00:00:00"]

\* the "value" of a measure: missing, null, empty, numeric text, other text
RawValues == {Absent, NoneV, "", "3", "2.5", "abc"}
RawMeasures == [metric : {MetricKeys[i] : i \in 1..Len(MetricKeys)}, value : RawValues]
Measure(metric, value) == [metric |-> metric, value |-> value]

\* the "measures" lists: none, any one measure, and lists in which a metric
\* comes twice or two metrics come together
MeasureLists ==
    {<<m>> : m \in RawMeasures}
    \cup {<<Measure("bugs", "3"), Measure("bugs", "abc")>>,
          <<Measure("coverage", "abc"), Measure("coverage", "2.5")>>,
          <<Measure("ncloc", "3"), Measure("coverage", "2.5")>>}

RawIssues ==
    {[key |-> "I1", type |-> "BUG", severity |-> "MAJOR", message |-> "m",
      component |-> "k:a.py", line |-> "3", effort |-> "5min"],
     [key |-> "I2", type |-> "CODE_SMELL", severity |-> "MINOR", message |-> "n",
      component |-> "k:a.py", line |-> Absent, effort |-> Absent]}

RawConditions ==
    {[metricKey |-> "coverage", actualValue |-> "10", errorThreshold |-> "80",
      warningThreshold |-> "90", status |-> "ERROR"],
     [metricKey |-> "bugs", actualValue |-> "0", errorThreshold |-> Absent,
      warningThreshold |-> "1", status |-> "OK"]}

Answers(project_info, analyses, metrics, issues, quality_gate) ==
    [project_info |-> project_info, analyses |-> analyses, metrics |-> metrics,
     issues |-> issues, quality_gate |-> quality_gate]

\* What the backend may answer to the five GETs of GET /report/<key>: every
\* combination of failing sub-queries, with either the measures or the
\* issues and conditions drawn in full.
ReportAnswers(key) ==
    LET comps == Fails(FailKinds) \cup {ComponentOk(key)}
        anas == Fails({"HTTPError"}) \cup {AnalysesOk(<< >>), AnalysesOk(<<Analysis1>>)}
        plainMetrics == Fails({"Timeout"}) \cup {MetricsOk(<< >>)}
        richMetrics == {MetricsOk(ms) : ms \in MeasureLists}
        plainIssues == Fails({"HTTPError"}) \cup {IssuesOk(<< >>)}
        richIssues == {IssuesOk(l) : l \in SeqsUpTo(RawIssues, MaxIssues) \ {<< >>}}
        plainGates == Fails({"ConnectionError"}) \cup {QualityGateOk("OK", << >>)}
        richGates == {QualityGateOk(st, cs) : st \in {"NONE", "ERROR"},
                          cs \in SeqsUpTo(RawConditions, MaxConditions)}
    IN  {Answers(c, a, m, i, q) : c \in comps, a \in anas, m \in richMetrics,
             i \in plainIssues, q \in plainGates}
        \cup {Answers(c, a, m, i, q) : c \in comps, a \in anas, m \in plainMetrics,
                  i \in plainIssues \cup richIssues, q \in plainGates \cup richGates}

\* What the backend may answer to one poll of /scan: every combination of
\* failing sub-queries around an indexed analysis with a computed gate; no
\* failure, with the analysis not indexed or the gate not computed yet; and
\* a measure value that is no number, with the component lookup and the
\* quality gate failing or not.
PollAnswers(key) ==
    {Answers(c, a, m, i, q) :
        c \in Fails({"HTTPError"}) \cup {ComponentOk(key)},
        a \in Fails({"HTTPError"}) \cup {AnalysesOk(<<Analysis1>>)},
        m \in Fails({"Timeout"}) \cup {MetricsOk(<< >>)},
        i \in Fails({"HTTPError"}) \cup {IssuesOk(<< >>)},
        q \in Fails({"ConnectionError"}) \cup {QualityGateOk("OK", << >>)}}
    \cup {Answers(ComponentOk(key), a, MetricsOk(<< >>), IssuesOk(<< >>), q) :
             a \in {AnalysesOk(<< >>), AnalysesOk(<<Analysis1>>)},
             q \in {QualityGateOk("NONE", << >>), QualityGateOk("OK", << >>)}}
    \cup {Answers(c, AnalysesOk(<<Analysis1>>),
                  MetricsOk(<<Measure("bugs", "abc")>>), IssuesOk(<< >>), q) :
             c \in Fails({"HTTPError"}) \cup {ComponentOk(key)},
             q \in Fails({"ConnectionError"}) \cup {QualityGateOk("OK", << >>)}}

\* What the backend may answer to the component lookup of project_exists:
\* a failure, the component, or a 2xx answer without a component
ExistsOutcomes(key) == Fails(FailKinds) \cup {ComponentOk(key), OkOutcome(EmptyDict)}

(* -------------------------------- state -------------------------------- *)
VARIABLES
    SONAR_TOKEN,   \* the reference credential read at start-up, or None
    fs,            \* the directories that exist under /tmp
    pc,            \* where each request thread is in its handler
    req,           \* the request a thread is serving
    project_key,   \* scan(): project_key
    project_dir,   \* scan() / prepare_scan(): project_dir
    cleanup_dir,   \* scan(): cleanup_dir; Absent while not in locals()
    clone,         \* prepare_scan(): result of git clone
    scanner,       \* scan(): result of the scanner run
    waited,        \* scan(): waited
    report_data,   \* scan() / get_report(): the result of get_sonar_report
    resp,          \* the response the handler returns
    eff,           \* what the request has done outside the process so far:
                   \* whether the lookup of the duplicate check found the
                   \* project and was made before any other request in flight
                   \* ran the scanner for the key, the directories made and removed,
                   \* the subprocesses run, the backend queries made, and whether
                   \* some poll had the component lookup succeed, and whether
                   \* some poll had the quality-gate query succeed
    failed,        \* the sub-queries that failed in the last report assembly
    served,        \* the responses a thread has sent
    backend        \* what the backend answers to the five GETs of a report
                   \* lookup while its state is stable; not known while it
                   \* may change from one lookup to the next

vars == <<SONAR_TOKEN, fs, pc, req, project_key, project_dir, cleanup_dir, clone, scanner,
          waited, report_data, resp, eff, failed, served, backend>>

NoResp == [status |-> 0, body |-> << >>]
NoReport == [raised |-> FALSE, doc |-> << >>]
NoEff == [exists |-> FALSE, first |-> FALSE, made |-> {}, removed |-> {},
          rmFailed |-> FALSE, clones |-> 0, writes |-> 0,
          saves |-> 0, scans |-> 0, queries |-> 0, assemblies |-> 0,
          compUp |-> FALSE, gateUp |-> FALSE]

\* the backend may answer each lookup anew
NoBackend ==
    [known |-> FALSE,
     answers |-> Answers(FailOutcome("ConnectionError"), FailOutcome("ConnectionError"),
                         FailOutcome("ConnectionError"), FailOutcome("ConnectionError"),
                         FailOutcome("ConnectionError"))]

\* the answers of the backend to a report lookup of key
BackendAnswers(key) == IF backend.known THEN {backend.answers} ELSE ReportAnswers(key)

Init ==
    /\ SONAR_TOKEN \in TokenConfigs
    /\ fs = {UPLOAD_BASE_DIR}
    /\ pc = [p \in Procs |-> "idle"]
    /\ req = [p \in Procs |-> NoRequest]
    /\ project_key = [p \in Procs |-> NoneV]
    /\ project_dir = [p \in Procs |-> NoneV]
    /\ cleanup_dir = [p \in Procs |-> Absent]
    /\ clone = [p \in Procs |-> NoResult]
    /\ scanner = [p \in Procs |-> NoResult]
    /\ waited = [p \in Procs |-> 0]
    /\ report_data = [p \in Procs |-> NoReport]
    /\ resp = [p \in Procs |-> NoResp]
    /\ eff = [p \in Procs |-> NoEff]
    /\ failed = [p \in Procs |-> {}]
    /\ served = [p \in Procs |-> 0]
    /\ backend = NoBackend

(* ------------------------------- helpers ------------------------------- *)
\* variant: a credential is accepted once; a request that repeats the token
\* of a request already answered is turned away
AuthError_once(token) ==
    IF token = Absent
    THEN error_response("Missing required header: X-Sonar-Token", 401, << >>)
    ELSE IF \/ Falsy(token) \/ (~Falsy(SONAR_TOKEN) /\ token # SONAR_TOKEN)
            \/ \E q \in Procs : pc[q] = "done" /\ req[q].token = token
    THEN error_response("Invalid SonarQube token in header.", 401, << >>)
    ELSE NoResp

\* variant: the header is not compared with the reference credential
AuthError_no_reference(token) ==
    IF token = Absent
    THEN error_response("Missing required header: X-Sonar-Token", 401, << >>)
    ELSE IF Falsy(token)
    THEN error_response("Invalid SonarQube token in header.", 401, << >>)
    ELSE NoResp

\* lines 187-193 and 309-315: the 401 answer, or NoResp when the credential passes
AuthError(token) ==
    IF token = Absent
    THEN error_response("Missing required header: X-Sonar-Token", 401, << >>)
    ELSE IF Falsy(token) \/ (~Falsy(SONAR_TOKEN) /\ token # SONAR_TOKEN)
    THEN error_response("Invalid SonarQube token in header.", 401, << >>)
    ELSE NoResp

\* lines 196-202: the key the duplicate check is made with
EarlyKey(r) ==
    IF r.kind = "multipart" THEN GetField(r.form.project_key)
    ELSE IF r.kind = "json" THEN get_project_key(r.data, KeyCallFilename(r.data))
    ELSE NoneV

\* the except clause of scan(), lines 293-296
Unexpected(e) ==
    error_response("An unexpected server error occurred", 500, << <<"details", e>> >>)

\* data.get("filename", f"{project_key}_source.py")
CodeFilename(data, key) ==
    IF data.filename.present THEN data.filename ELSE File(<< >>, key \o "_source", ".py")

\* open(os.path.join(project_dir, name), "w") in a directory just made
Writable(name) == name.dir = << >> /\ FileStr(name) # ""

\* variant: only exit codes above 1 count as failure
CloneFailed_above_one(result) == result.returncode > 1

\* line 71
CloneFailed(result) == result.returncode # 0

\* variant: only one of the two markers is looked for
ScanFailed_one_marker(stdout) == ~Contains(stdout, "ANALYSIS SUCCESSFUL")

\* line 259
ScanFailed(stdout) ==
    /\ ~Contains(stdout, "ANALYSIS SUCCESSFUL")
    /\ ~Contains(stdout, "EXECUTION SUCCESS")

\* line 270
Ready(doc) ==
    LET project == Value(doc, "project")
    IN  /\ ~Falsy(DictGet(project, "analysis_id"))
        /\ ~Falsy(DictGet(project, "status"))
        /\ DictGet(project, "status") # "NONE"

\* lines 275-276 and 284-285
WithStderr(doc, stderr) ==
    IF stderr # "" THEN Append(doc, <<"scanner_stderr_warnings", stderr>>) ELSE doc

WARNING == "Analysis is still processing. This report may be incomplete."

Goto(p, label) == pc' = [pc EXCEPT ![p] = label]

\* a return statement inside the try block: the finally clause runs next
Return(p, response) ==
    /\ resp' = [resp EXCEPT ![p] = response]
    /\ Goto(p, "finally")

Did(p, what, n) == eff' = [eff EXCEPT ![p][what] = @ + n]

\* a thread takes a request while it has served fewer than MaxRequests
Accepting(p) == pc[p] = "idle" /\ served[p] < MaxRequests

(* -------------------------------- /scan -------------------------------- *)
\* lines 185-206, for a request out of requests
ScanReceiveOf(p, requests) ==
    /\ Accepting(p)
    /\ \E r \in requests :
        LET auth == AuthError(r.token)
            key == EarlyKey(r)
        IN  /\ req' = [req EXCEPT ![p] = r]
            /\ IF auth.status # 0
               THEN Return(p, auth) /\ UNCHANGED project_key
               ELSE /\ project_key' = [project_key EXCEPT ![p] = key]
                    /\ IF Falsy(key)
                       THEN Return(p, error_response("Missing required field: project_key",
                                                     400, << >>))
                       ELSE Goto(p, "exists_check") /\ UNCHANGED resp
    /\ UNCHANGED <<SONAR_TOKEN, clone, fs, project_dir, cleanup_dir, scanner, waited,
                   report_data, eff, failed, served, backend>>

ScanReceive(p) == ScanReceiveOf(p, ScanRequests)

\* another request in flight has invoked the scanner for the key of p
ScannedByOther(p) ==
    \E q \in Procs \ {p} : project_key[q] = project_key[p] /\ eff[q].scans > 0

\* lines 208-210
ScanExistsCheck(p) ==
    /\ pc[p] = "exists_check"
    /\ \E outcome \in ExistsOutcomes(project_key[p]) :
        /\ eff' = [eff EXCEPT ![p].queries = @ + 1, ![p].exists =
                                  (outcome.kind = "ok" /\ "component" \in DOMAIN outcome.json),
                              ![p].first = ~ScannedByOther(p)]
        /\ IF project_exists(outcome)
           THEN Return(p, error_response("Project '" \o project_key[p] \o
                    "' already exists. Please use a different project_key.", 400, << >>))
           ELSE Goto(p, "prepare") /\ UNCHANGED resp
    /\ UNCHANGED <<SONAR_TOKEN, clone, fs, req, project_key, project_dir, cleanup_dir, scanner,
                   waited, report_data, failed, served, backend>>

\* os.makedirs(dir, exist_ok=True), after the rmtree of lines 67-68 / 86-87
MakeFresh(p, dir) ==
    /\ fs' = fs \cup {dir}
    /\ project_dir' = [project_dir EXCEPT ![p] = dir]
    /\ eff' = [eff EXCEPT ![p].made = @ \cup {dir},
                          ![p].removed = @ \cup (fs \cap {dir})]
    /\ Goto(p, "materialize")
    /\ UNCHANGED resp

\* variant: two parts are let through
TooManyFiles_above_two(files) == Len(files) > 2

\* line 217
TooManyFiles(files) == Len(files) > 1

\* lines 213-227: the checks of the file parts and the upload directory
PrepareUpload(p) ==
    LET files == req[p].files
        dir == UPLOAD_BASE_DIR \o "/" \o Basename(files[1]) \o "_scan"
    IN  IF TooManyFiles(files)
        THEN /\ Return(p, error_response("Only one zip file is allowed.", 400, << >>))
             /\ UNCHANGED <<fs, project_dir, cleanup_dir, eff>>
        ELSE IF FileStr(files[1]) = ""
        THEN /\ Return(p, error_response("No file selected or filename is empty", 400, << >>))
             /\ UNCHANGED <<fs, project_dir, cleanup_dir, eff>>
        ELSE /\ fs' = fs \cup {dir}
             /\ project_dir' = [project_dir EXCEPT ![p] = dir]
             /\ cleanup_dir' = [cleanup_dir EXCEPT ![p] = dir]
             /\ eff' = [eff EXCEPT ![p].made = @ \cup ({dir} \ fs)]
             /\ Goto(p, "materialize")
             /\ UNCHANGED resp

\* lines 250-252 with prepare_scan lines 57-69, 82-88 and 101-102
PrepareJson(p) ==
    LET data == req[p].data
        key == get_project_key(data, KeyCallFilename(data))
        project_name == GetField(data.project_name)
        dir == IF data.git_url.present THEN "/tmp/git_project_" \o key
               ELSE "/tmp/code_project_" \o key
    IN  IF Falsy(project_name)
        THEN /\ Return(p, error_response("Missing required field: project_name", 400, << >>))
             /\ cleanup_dir' = [cleanup_dir EXCEPT ![p] = NoneV]
             /\ UNCHANGED <<fs, project_dir, eff>>
        ELSE IF Falsy(key)
        THEN /\ Return(p, error_response("Missing required field: project_key", 400, << >>))
             /\ cleanup_dir' = [cleanup_dir EXCEPT ![p] = NoneV]
             /\ UNCHANGED <<fs, project_dir, eff>>
        ELSE IF data.git_url.present \/ data.code # Absent
        THEN \/ MakeFresh(p, dir) /\ UNCHANGED cleanup_dir
             \/ /\ dir \in fs      \* shutil.rmtree of the old directory raises
                /\ Return(p, Unexpected("rmtree failed"))
                /\ UNCHANGED <<fs, project_dir, cleanup_dir, eff>>
        ELSE /\ Return(p, error_response(
                     "Invalid JSON payload. Expecting 'git_url' or 'code'.", 400, << >>))
             /\ cleanup_dir' = [cleanup_dir EXCEPT ![p] = NoneV]
             /\ UNCHANGED <<fs, project_dir, eff>>

ScanPrepare(p) ==
    /\ pc[p] = "prepare"
    /\ IF req[p].kind = "multipart" THEN PrepareUpload(p) ELSE PrepareJson(p)
    /\ UNCHANGED <<SONAR_TOKEN, clone, req, project_key, scanner, waited, report_data, failed, served, backend>>

\* line 70-80: git clone into the directory; prepare_scan returns it either way
MaterializeClone(p) ==
    \E result \in CloneResults :
        /\ Did(p, "clones", 1)
        /\ clone' = [clone EXCEPT ![p] = result]
        /\ cleanup_dir' = [cleanup_dir EXCEPT ![p] = project_dir[p]]
        /\ IF CloneFailed(result)
           THEN Return(p, error_response("Failed to clone git repository", 500,
                    << <<"details", IF result.stderr # "" THEN result.stderr
                                    ELSE Text(result.stdout)>> >>))
           ELSE Goto(p, "scan") /\ UNCHANGED resp

\* lines 89-99: the inline source is written; open() or write() may raise
MaterializeCode(p) ==
    \E diskOk \in BOOLEAN :
        IF diskOk /\ Writable(CodeFilename(req[p].data, project_key[p]))
        THEN /\ Did(p, "writes", 1)
             /\ cleanup_dir' = [cleanup_dir EXCEPT ![p] = project_dir[p]]
             /\ UNCHANGED clone
             /\ Goto(p, "scan") /\ UNCHANGED resp
        ELSE /\ Return(p, Unexpected("OSError"))
             /\ UNCHANGED <<cleanup_dir, clone, eff>>

\* lines 228-237: save, extract, then the project_name check
MaterializeUpload(p) ==
    \E outcome \in {"save failed", "bad zip", "extracted"} :
        IF outcome = "save failed"
        THEN Return(p, Unexpected("OSError")) /\ UNCHANGED <<cleanup_dir, clone, eff>>
        ELSE /\ Did(p, "saves", 1)
             /\ UNCHANGED <<cleanup_dir, clone>>
             /\ IF outcome = "bad zip"
                THEN Return(p, Unexpected("BadZipFile"))
                ELSE IF Falsy(GetField(req[p].form.project_name))
                THEN Return(p, error_response("Missing required field: project_name",
                                              400, << >>))
                ELSE Goto(p, "scan") /\ UNCHANGED resp

ScanMaterialize(p) ==
    /\ pc[p] = "materialize"
    /\ IF req[p].kind = "multipart" THEN MaterializeUpload(p)
       ELSE IF req[p].data.git_url.present THEN MaterializeClone(p)
       ELSE MaterializeCode(p)
    /\ UNCHANGED <<SONAR_TOKEN, fs, req, project_key, project_dir, scanner, waited,
                   report_data, failed, served, backend>>

\* lines 255-261
ScanRun(p) ==
    /\ pc[p] = "scan"
    /\ \E result \in ScannerResults :
        /\ scanner' = [scanner EXCEPT ![p] = result]
        /\ IF ScanFailed(result.stdout)
           THEN Return(p, error_response("SonarScanner analysis failed.", 500,
                    << <<"scanner_stdout", Text(result.stdout)>>,
                       <<"scanner_stderr", result.stderr>> >>))
           ELSE Goto(p, "poll") /\ UNCHANGED resp
    /\ Did(p, "scans", 1)
    /\ waited' = [waited EXCEPT ![p] = 0]
    /\ UNCHANGED <<SONAR_TOKEN, clone, fs, req, project_key, project_dir, cleanup_dir,
                   report_data, failed, served, backend>>

\* one iteration of the loop of lines 267-273, and lines 284-291 after
\* break, the backend answering with one of polls
ScanPollOf(p, polls) ==
    /\ pc[p] = "poll"
    /\ waited[p] < max_wait
    /\ \E answers \in polls :
        LET report == get_sonar_report(answers)
        IN  /\ failed' = [failed EXCEPT ![p] = FailedOf(answers)]
            /\ IF report.raised
               THEN /\ Return(p, Unexpected("ValueError"))
                    /\ UNCHANGED <<report_data, waited>>
               ELSE IF Ready(report.doc)
               THEN /\ report_data' = [report_data EXCEPT ![p] =
                           [report EXCEPT !.doc = WithStderr(@, scanner[p].stderr)]]
                    /\ Return(p, [status |-> 200,
                                  body |-> WithStderr(report.doc, scanner[p].stderr)])
                    /\ UNCHANGED waited
               ELSE /\ report_data' = [report_data EXCEPT ![p] = report]
                    /\ waited' = [waited EXCEPT ![p] = @ + poll_interval]
                    /\ UNCHANGED <<pc, resp>>
            /\ eff' = [eff EXCEPT ![p].queries = @ + 5, ![p].assemblies = @ + 1,
                   ![p].compUp = @ \/ answers.project_info.kind = "ok",
                   ![p].gateUp = @ \/ answers.quality_gate.kind = "ok"]
    /\ UNCHANGED <<SONAR_TOKEN, clone, fs, req, project_key, project_dir, cleanup_dir, scanner, served, backend>>

ScanPoll(p) == ScanPollOf(p, PollAnswers(project_key[p]))

\* the else clause of the loop, lines 274-282
ScanTimeout(p) ==
    /\ pc[p] = "poll"
    /\ ~(waited[p] < max_wait)
    /\ LET doc == Append(WithStderr(report_data[p].doc, scanner[p].stderr),
                         <<"warning", WARNING>>)
       IN  /\ report_data' = [report_data EXCEPT ![p].doc = doc]
           /\ Return(p, [status |-> 202, body |-> doc])
    /\ UNCHANGED <<SONAR_TOKEN, clone, fs, req, project_key, project_dir, cleanup_dir, scanner,
                   waited, eff, failed, served, backend>>

\* the finally clause, lines 297-302; a failing rmtree is swallowed
ScanFinally(p) ==
    /\ pc[p] = "finally"
    /\ IF ~Falsy(cleanup_dir[p]) /\ cleanup_dir[p] \in fs
       THEN \E removed \in BOOLEAN :
               /\ fs' = IF removed THEN fs \ {cleanup_dir[p]} ELSE fs
               /\ eff' = [eff EXCEPT ![p].removed =
                             IF removed THEN @ \cup {cleanup_dir[p]} ELSE @,
                                     ![p].rmFailed = ~removed]
       ELSE UNCHANGED <<fs, eff>>
    /\ Goto(p, "done")
    /\ UNCHANGED <<SONAR_TOKEN, clone, req, project_key, project_dir, cleanup_dir, scanner,
                   waited, report_data, resp, failed, served, backend>>

(* ---------------------------- /report, /test --------------------------- *)
\* lines 306-326; an exception leaves the handler and Flask answers 500
get_report(p) ==
    /\ Accepting(p)
    /\ \E r \in ReportRequests :
        LET auth == AuthError(r.token)
        IN  /\ req' = [req EXCEPT ![p] = r]
            /\ IF auth.status # 0
               THEN /\ resp' = [resp EXCEPT ![p] = auth]
                    /\ UNCHANGED <<report_data, eff, failed>>
               ELSE \E answers \in BackendAnswers(r.key) :
                    LET report == get_sonar_report(answers)
                    IN  /\ eff' = [eff EXCEPT ![p].queries = @ + 5,
                                              ![p].assemblies = @ + 1]
                        /\ failed' = [failed EXCEPT ![p] = FailedOf(answers)]
                        /\ report_data' = [report_data EXCEPT ![p] = report]
                        /\ resp' = [resp EXCEPT ![p] =
                              IF report.raised
                              THEN [status |-> 500, body |-> << >>]
                              ELSE IF "error" \in DOMAIN Value(report.doc, "project")
                              THEN error_response("That report is not existed", 404, << >>)
                              ELSE [status |-> 200, body |-> report.doc]]
    /\ Goto(p, "done")
    /\ UNCHANGED <<SONAR_TOKEN, clone, fs, project_key, project_dir, cleanup_dir, scanner, waited, served, backend>>

\* lines 329-331
test_endpoint(p) ==
    /\ Accepting(p)
    /\ \E r \in TestRequests :
        /\ req' = [req EXCEPT ![p] = r]
        /\ resp' = [resp EXCEPT ![p] =
              [status |-> 200, body |-> << <<"message", "Sonar API is running!">>,
                                           <<"sonar_host", SONAR_HOST>> >>]]
    /\ Goto(p, "done")
    /\ UNCHANGED <<SONAR_TOKEN, clone, fs, project_key, project_dir, cleanup_dir, scanner, waited,
                   report_data, eff, failed, served, backend>>

\* the response is sent and the thread takes the next request
Respond(p) ==
    /\ pc[p] = "done"
    /\ pc' = [pc EXCEPT ![p] = "idle"]
    /\ req' = [req EXCEPT ![p] = NoRequest]
    /\ project_key' = [project_key EXCEPT ![p] = NoneV]
    /\ project_dir' = [project_dir EXCEPT ![p] = NoneV]
    /\ cleanup_dir' = [cleanup_dir EXCEPT ![p] = Absent]
    /\ clone' = [clone EXCEPT ![p] = NoResult]
    /\ scanner' = [scanner EXCEPT ![p] = NoResult]
    /\ waited' = [waited EXCEPT ![p] = 0]
    /\ report_data' = [report_data EXCEPT ![p] = NoReport]
    /\ resp' = [resp EXCEPT ![p] = NoResp]
    /\ eff' = [eff EXCEPT ![p] = NoEff]
    /\ failed' = [failed EXCEPT ![p] = {}]
    /\ served' = [served EXCEPT ![p] = @ + 1]
    /\ UNCHANGED <<SONAR_TOKEN, fs, backend>>

(* ----------------------------- specification --------------------------- *)
Handler(p) ==
    \/ ScanReceive(p)
    \/ ScanExistsCheck(p)
    \/ ScanPrepare(p)
    \/ ScanMaterialize(p)
    \/ ScanRun(p)
    \/ ScanPoll(p)
    \/ ScanTimeout(p)
    \/ ScanFinally(p)
    \/ get_report(p)
    \/ test_endpoint(p)
    \/ Respond(p)

\* requests served one after the other by one thread
Next == Handler(1)

Spec == Init /\ [][Next]_vars

(* ------------------- report lookups on a stable backend ----------------- *)
\* the backend keeps one state, any of those a report lookup can meet
InitRepeat ==
    /\ Init!1 /\ Init!2 /\ Init!3 /\ Init!4 /\ Init!5 /\ Init!6 /\ Init!7 /\ Init!8
    /\ Init!9 /\ Init!10 /\ Init!11 /\ Init!12 /\ Init!13 /\ Init!14 /\ Init!15
    /\ backend \in {[known |-> TRUE, answers |-> a] : a \in ReportAnswers("k")}

\* GET /report requests, each handled to its end before the next is taken
NextRepeat == \E p \in Procs : get_report(p)

SpecRepeat == InitRepeat /\ [][NextRepeat]_vars

(* --------------------------- concurrent /scan -------------------------- *)
FormJ == [project_key |-> "j", project_name |-> "Demo"]
FormK == [project_key |-> "k", project_name |-> "Demo"]

\* /scan requests with an accepted credential: two clones that share the
\* key k, and two uploads of z.zip under the keys k and j
ConcRequests ==
    {Request("scan", "tok", "json",
             [NoData EXCEPT !.project_key = "k", !.project_name = "Demo", !.git_url = RepoUrl],
             << >>, NoForm, NoneV),
     Request("scan", "tok", "multipart", NoData, <<FileZip>>, FormK, NoneV),
     Request("scan", "tok", "multipart", NoData, <<FileZip>>, FormJ, NoneV)}

\* the first poll finds the analysis indexed and its gate computed
ConcPollAnswers(key) ==
    {Answers(ComponentOk(key), AnalysesOk(<<Analysis1>>), MetricsOk(<< >>), IssuesOk(<< >>),
             QualityGateOk("OK", << >>))}

ConcReceive(p) == ScanReceiveOf(p, ConcRequests)
ConcPoll(p) == ScanPollOf(p, ConcPollAnswers(project_key[p]))

\* the request threads of the server run /scan handlers side by side
NextConc ==
    \E p \in Procs :
        \/ ConcReceive(p)
        \/ ScanExistsCheck(p)
        \/ ScanPrepare(p)
        \/ ScanMaterialize(p)
        \/ ScanRun(p)
        \/ ConcPoll(p)
        \/ ScanFinally(p)
        \/ Respond(p)

SpecConc == Init /\ [][NextConc]_vars

(* ------------------------------- properties ---------------------------- *)
Terminal(p) == pc[p] \in {"finally", "done"}
IsScan(p) == req[p].endpoint = "scan"
IsReport(p) == req[p].endpoint = "report"

\* the credential of the request is absent, empty, or differs from a
\* configured reference credential
BadCredential(p) ==
    \/ req[p].token \in {Absent, ""}
    \/ SONAR_TOKEN \notin {NoneV, ""} /\ req[p].token # SONAR_TOKEN

\* the last report assembly of the request raised instead of returning
RaisedAtEnd(p) ==
    IF IsReport(p) THEN report_data[p].raised ELSE resp[p] = Unexpected("ValueError")

NoWorkspaceNoScanner(p) ==
    /\ eff[p].made = {}
    /\ eff[p].clones = 0 /\ eff[p].writes = 0 /\ eff[p].saves = 0
    /\ eff[p].scans = 0

\* C1: every /scan request that has begun polling has waited at most the
\* budget of 30, has assembled at most 15 reports, and once it has its
\* response that response is Ready (200) or TimedOut (202).
C1_PollingEndsReadyOrTimedOut ==
    \A p \in Procs :
        IsScan(p) /\ eff[p].assemblies > 0 =>
            /\ waited[p] <= max_wait
            /\ eff[p].assemblies * poll_interval <= max_wait
            /\ Terminal(p) => resp[p].status \in {200, 202}

\* C2: when the backend has the project at the duplicate check, the request
\* ends with status 400 and has made no directory, run no clone, write,
\* save or scanner, and assembled no report.
C2_DuplicateRejected ==
    \A p \in Procs :
        eff[p].exists =>
            /\ Terminal(p)
            /\ resp[p].status = 400
            /\ NoWorkspaceNoScanner(p)
            /\ eff[p].assemblies = 0
            /\ eff[p].queries = 1

C2_Witness ==
    \E p \in Procs : pc[p] = "done" /\ IsScan(p) /\ eff[p].exists /\ resp[p].status = 400

\* C3: once a /scan request is finished and its directory removal did not
\* fail, no directory the request made exists any more.
C3_WorkspaceRemovedOnEveryExit ==
    \A p \in Procs :
        pc[p] = "done" /\ IsScan(p) /\ ~eff[p].rmFailed => eff[p].made \cap fs = {}

\* C4: whatever sub-queries failed, a document get_sonar_report returns has
\* exactly the keys project, metrics_summary, issues, quality_gate_status,
\* in that order; /scan only appends its advisory fields after them.
C4_FourKeysInOrder ==
    \A p \in Procs :
        /\ pc[p] = "poll" /\ eff[p].assemblies > 0 =>
               Keys(report_data[p].doc) = ReportKeys
        /\ IsReport(p) /\ eff[p].assemblies > 0 /\ ~report_data[p].raised =>
               Keys(report_data[p].doc) = ReportKeys
        /\ IsReport(p) /\ resp[p].status = 200 => Keys(resp[p].body) = ReportKeys
        /\ IsScan(p) /\ resp[p].status \in {200, 202} =>
               SubSeq(Keys(resp[p].body), 1, 4) = ReportKeys

C4_Witness ==
    \E p \in Procs :
        /\ pc[p] = "poll" /\ eff[p].assemblies > 0
        /\ failed[p] = SubQueries
        /\ Keys(report_data[p].doc) = ReportKeys

\* C5: a /scan or /report request without the header ends with 401 and the
\* message "Missing required header: X-Sonar-Token"; one whose token is
\* empty or differs from a configured reference credential ends with 401;
\* neither queries the backend, makes a directory or runs the scanner.
\* /test answers 200 whatever the credential.
C5_Unauthorized ==
    \A p \in Procs :
        /\ req[p].endpoint \in {"scan", "report"} /\ BadCredential(p) =>
              /\ pc[p] \in {"finally", "done"}
              /\ resp[p].status = 401
              /\ req[p].token = Absent =>
                     resp[p].body = << <<"error", "Missing required header: X-Sonar-Token">> >>
              /\ eff[p] = NoEff
        /\ req[p].endpoint = "test" => resp[p].status = 200 /\ eff[p] = NoEff

C5_Witness ==
    \E p \in Procs :
        /\ pc[p] = "done" /\ IsScan(p) /\ SONAR_TOKEN = "tok" /\ req[p].token = "bad"
        /\ resp[p].status = 401

\* C6: an inline-source /scan request with project_name, code and filename
\* but neither project_key nor git_url gets the filename without its
\* extension as project key, and is not rejected for a missing key.
C6_KeyDerivedFromFilename ==
    \A p \in Procs :
        /\ IsScan(p) /\ req[p].kind = "json" /\ ~BadCredential(p)
        /\ req[p].data.project_key = Absent /\ ~req[p].data.git_url.present
        /\ req[p].data.code # Absent /\ req[p].data.filename.present
        /\ req[p].data.project_name # Absent
        => /\ project_key[p] = req[p].data.filename.stem
           /\ resp[p].status # 400

\* C7: a JSON /scan request with both git_url and code, or with neither, is
\* rejected with 400 and runs no clone, no workspace write and no scanner.
C7_ExactlyOneSourceMode ==
    \A p \in Procs :
        /\ IsScan(p) /\ req[p].kind = "json" /\ ~BadCredential(p)
        /\ req[p].data.git_url.present <=> req[p].data.code # Absent
        => /\ NoWorkspaceNoScanner(p)
           /\ pc[p] = "done" => resp[p].status = 400

\* what a document shows of the sub-queries that failed: the placeholder in
\* the field of each failed one, the assembled value in the others
Absorbed(doc, F) ==
    LET project == Value(doc, "project")
    IN  /\ "project_info" \in F <=> "error" \in DOMAIN project
        /\ "project_info" \notin F =>
               /\ project.name # NoneV /\ project.key # NoneV
               /\ "analyses" \in F => project.analysis_id = NoneV
               /\ "quality_gate" \in F => project.status = NoneV
        /\ "metrics" \in F <=> Value(doc, "metrics_summary") = EmptyDict
        /\ "issues" \in F => Value(doc, "issues") = << >>
        /\ "quality_gate" \in F <=> Value(doc, "quality_gate_status") = EmptyDict

\* C8 as stated: a request whose report assembly had a single sub-query
\* fail, the component lookup included, holds the placeholder in that field
\* and does not end with an error status.
C8_NoSubQueryFailureEscalates ==
    \A p \in Procs :
        /\ pc[p] = "done" /\ eff[p].assemblies > 0
        /\ Cardinality(failed[p]) = 1 /\ ~RaisedAtEnd(p)
        => /\ Absorbed(report_data[p].doc, failed[p])
           /\ resp[p].status < 400

\* C8 amended: every failed sub-query is absorbed into the placeholder of
\* its field while the other fields are assembled; on /scan no sub-query
\* failure gives an error status; on GET /report only a failed component
\* lookup does, and it gives 404.
C8_FailuresAbsorbed ==
    \A p \in Procs :
        eff[p].assemblies > 0 =>
            /\ ~RaisedAtEnd(p) => Absorbed(report_data[p].doc, failed[p])
            /\ RaisedAtEnd(p) => "metrics" \notin failed[p]
            /\ IsScan(p) /\ Terminal(p) /\ ~RaisedAtEnd(p) => resp[p].status \in {200, 202}
            /\ IsReport(p) /\ ~RaisedAtEnd(p) =>
                   resp[p].status = IF "project_info" \in failed[p] THEN 404 ELSE 200

C8_Witness ==
    \E p \in Procs :
        /\ pc[p] = "done" /\ IsReport(p)
        /\ failed[p] = SubQueries \ {"project_info"}
        /\ resp[p].status = 200

\* C9: when the metrics sub-query succeeded, the assembly did not fail and
\* metrics_summary holds a number in each of its seven fields.
C9_MetricsAreNumbers ==
    \A p \in Procs :
        eff[p].assemblies > 0 /\ "metrics" \notin failed[p] /\ (pc[p] = "poll" \/ Terminal(p)) =>
            /\ ~RaisedAtEnd(p)
            /\ LET ms == Value(report_data[p].doc, "metrics_summary")
               IN  /\ DOMAIN ms = {"bugs", "vulnerabilities", "code_smells",
                                   "duplicated_lines_density", "coverage",
                                   "lines_of_code", "sqale_index"}
                   /\ \A k \in DOMAIN ms : ms[k].t \in {"int", "float"}

\* the clone of the request ran and exited non-zero
CloneExitedNonZero(p) == eff[p].clones > 0 /\ clone[p].returncode # 0

\* the 500 of a failed clone: the captured stderr, or else stdout, as details
CloneFailure(p) ==
    /\ resp[p].status = 500
    /\ Keys(resp[p].body) = <<"error", "details">>
    /\ Value(resp[p].body, "details") =
           IF clone[p].stderr # "" THEN clone[p].stderr ELSE Text(clone[p].stdout)
    /\ eff[p].scans = 0 /\ eff[p].assemblies = 0

\* C10 as stated: after a clone that exited non-zero the request ends with
\* the 500 of the clone, without scanner or polling, and its clone directory
\* is gone when the request is finished.
C10_CloneDirAlwaysRemoved ==
    \A p \in Procs :
        CloneExitedNonZero(p) =>
            /\ Terminal(p) /\ CloneFailure(p)
            /\ pc[p] = "done" => project_dir[p] \notin fs

\* C10 amended: the same, the clone directory being gone when the request
\* is finished provided its removal did not fail.
C10_CloneFailureCleansUp ==
    \A p \in Procs :
        CloneExitedNonZero(p) =>
            /\ Terminal(p) /\ CloneFailure(p)
            /\ pc[p] = "done" /\ ~eff[p].rmFailed => project_dir[p] \notin fs

C10_Witness ==
    \E p \in Procs :
        /\ pc[p] = "done" /\ CloneExitedNonZero(p)
        /\ project_dir[p] \in eff[p].made /\ project_dir[p] \notin fs

\* the request has its credential accepted
Authorized(p) == req[p].endpoint # "none" /\ ~BadCredential(p)

\* C11 as stated: an authorized GET /report ends with 404 when the component
\* lookup failed and with 200 and the four-key document otherwise; it makes
\* no directory and runs no clone, write, save or scanner.
C11_ReportIs404Or200 ==
    \A p \in Procs :
        IsReport(p) /\ Authorized(p) /\ pc[p] = "done" =>
            /\ resp[p].status = IF "project_info" \in failed[p] THEN 404 ELSE 200
            /\ resp[p].status = 200 =>
                   /\ resp[p].body = report_data[p].doc
                   /\ Keys(resp[p].body) = ReportKeys
            /\ NoWorkspaceNoScanner(p)

\* the request is an archive upload that passed the duplicate check and
\* whose file parts have been looked at
UploadChecked(p) ==
    /\ IsScan(p) /\ req[p].kind = "multipart" /\ Authorized(p)
    /\ eff[p].queries = 1 /\ ~eff[p].exists
    /\ pc[p] \notin {"idle", "exists_check", "prepare"}

\* C13: an archive upload that passed the duplicate check ends with 400
\* "Only one zip file is allowed." when it has more than one file part, and
\* with 400 when its single part has an empty file name; in both cases it
\* has made no directory and run no save and no scanner.
C13_BadUploadRejected ==
    \A p \in Procs :
        UploadChecked(p) =>
            /\ Len(req[p].files) > 1 =>
                   /\ Terminal(p)
                   /\ resp[p] = error_response("Only one zip file is allowed.", 400, << >>)
                   /\ NoWorkspaceNoScanner(p)
            /\ Len(req[p].files) = 1 /\ FileStr(req[p].files[1]) = "" =>
                   /\ Terminal(p)
                   /\ resp[p].status = 400
                   /\ NoWorkspaceNoScanner(p)

C13_Witness ==
    \E p \in Procs :
        /\ pc[p] = "done" /\ UploadChecked(p) /\ Len(req[p].files) = 2
        /\ resp[p].status = 400 /\ eff[p].made = {}

\* the captured stdout of the scanner run holds a completion marker
HasMarker(p) ==
    \/ Contains(scanner[p].stdout, "ANALYSIS SUCCESSFUL")
    \/ Contains(scanner[p].stdout, "EXECUTION SUCCESS")

\* non-empty scanner stderr is in the response as the advisory field
StderrAttached(p) ==
    scanner[p].stderr # "" =>
        /\ \E i \in 1..Len(resp[p].body) : resp[p].body[i][1] = "scanner_stderr_warnings"
        /\ Value(resp[p].body, "scanner_stderr_warnings") = scanner[p].stderr

\* C14 as stated: after a successful scan the request ends with 200 exactly
\* when a poll within the budget gave a ready report, which is then the last
\* poll made; otherwise it ends with 202 after the whole budget, with the
\* last assembled report and the warning. Scanner stderr is attached in both.
C14_ReadyOr202 ==
    \A p \in Procs :
        IsScan(p) /\ eff[p].scans > 0 /\ HasMarker(p) =>
            /\ pc[p] = "poll" /\ eff[p].assemblies > 0 => ~Ready(report_data[p].doc)
            /\ Terminal(p) =>
                   IF resp[p].status = 200
                   THEN /\ Ready(report_data[p].doc)
                        /\ waited[p] < max_wait
                        /\ resp[p].body = report_data[p].doc
                        /\ SubSeq(Keys(resp[p].body), 1, 4) = ReportKeys
                        /\ StderrAttached(p)
                   ELSE /\ resp[p].status = 202
                        /\ ~Ready(report_data[p].doc)
                        /\ waited[p] = max_wait
                        /\ resp[p].body = report_data[p].doc
                        /\ resp[p].body[Len(resp[p].body)] = <<"warning", WARNING>>
                        /\ StderrAttached(p)

\* C15: a request whose scanner run left no completion marker in stdout
\* ends, whatever the exit code, with 500 carrying scanner_stdout and
\* scanner_stderr and assembles no report; one whose stdout holds a marker
\* goes on to polling, whatever the exit code.
C15_OutcomeFromStdoutOnly ==
    \A p \in Procs :
        IsScan(p) /\ eff[p].scans > 0 =>
            /\ ~HasMarker(p) =>
                   /\ Terminal(p)
                   /\ resp[p] = error_response("SonarScanner analysis failed.", 500,
                          << <<"scanner_stdout", Text(scanner[p].stdout)>>,
                             <<"scanner_stderr", scanner[p].stderr>> >>)
                   /\ eff[p].assemblies = 0
            /\ HasMarker(p) =>
                   \/ pc[p] = "poll"
                   \/ Terminal(p) /\ eff[p].assemblies > 0

C15_Witness ==
    \E p \in Procs :
        /\ pc[p] = "done" /\ eff[p].scans = 1
        /\ scanner[p].returncode = 0 /\ ~HasMarker(p)
        /\ resp[p].status = 500 /\ eff[p].assemblies = 0

\* the project key or the project name of the request cannot be resolved
Unresolved(p) ==
    \/ Falsy(EarlyKey(req[p]))
    \/ req[p].kind = "multipart" /\ Falsy(req[p].form.project_name)
    \/ req[p].kind = "json" /\ Falsy(req[p].data.project_name)

\* C16 as stated: an authorized /scan request whose key or name cannot be
\* resolved makes no directory, saves no archive and runs no scanner, and
\* ends with 400.
C16_ValidationBeforePreparation ==
    \A p \in Procs :
        IsScan(p) /\ Authorized(p) /\ Unresolved(p) =>
            /\ NoWorkspaceNoScanner(p)
            /\ pc[p] = "done" => resp[p].status = 400

DuplicateProject(key) ==
    error_response("Project '" \o key \o "' already exists. Please use a different project_key.",
                   400, << >>)

\* C20: a /scan request that has made its duplicate check is rejected as a
\* duplicate exactly when the lookup succeeded and returned a component;
\* when the lookup failed the request has gone on to workspace preparation.
C20_DuplicateCheckFailsOpen ==
    \A p \in Procs :
        IsScan(p) /\ eff[p].queries >= 1 =>
            /\ eff[p].exists <=> resp[p] = DuplicateProject(project_key[p])
            /\ ~eff[p].exists =>
                   \/ pc[p] \in {"prepare", "materialize", "scan", "poll"}
                   \/ Terminal(p) /\ resp[p].status # 0

C20_Witness ==
    \E p \in Procs :
        /\ IsScan(p) /\ eff[p].queries >= 1 /\ ~eff[p].exists
        /\ eff[p].made # {} /\ eff[p].scans = 1

\* two finished report lookups of the same request, on a stable backend
SameLookup(p, q) ==
    /\ backend.known
    /\ pc[p] = "done" /\ pc[q] = "done"
    /\ IsReport(p) /\ req[q] = req[p]

Using(p) ==
    /\ IsScan(p) /\ project_dir[p] # NoneV
    /\ pc[p] \in {"materialize", "scan", "poll"}

\* C17 as stated: no two /scan requests in flight hold the same workspace
\* path, and the workspace a request holds has not been deleted under it.
C17_WorkspaceExclusive ==
    \A p \in Procs :
        Using(p) =>
            /\ \A q \in Procs \ {p} : Using(q) => project_dir[q] # project_dir[p]
            /\ project_dir[p] \in fs

\* C18: the duplicate check of a request is all that stands before its
\* scanner run and looks at nothing but the backend: a request that has run
\* the scanner made the check and found no project, whatever the other
\* requests in flight do with the same key. (The witness is the window: two
\* requests of one key, each checked before the other ran the scanner, both
\* with a workspace prepared and the scanner run.)
C18_CheckNotAtomicWithScan ==
    \A p \in Procs :
        IsScan(p) /\ eff[p].scans > 0 =>
            /\ eff[p].queries >= 1 /\ ~eff[p].exists
            /\ project_dir[p] # NoneV

C18_Witness ==
    \E p, q \in Procs :
        /\ p # q /\ IsScan(p) /\ IsScan(q)
        /\ project_key[p] = project_key[q]
        /\ eff[p].first /\ eff[q].first
        /\ ~eff[p].exists /\ ~eff[q].exists
        /\ project_dir[p] # NoneV /\ project_dir[q] # NoneV
        /\ eff[p].scans = 1 /\ eff[q].scans = 1

====
